---- MODULE Spec2Model ----
(* Model of apps/agent-cli-ink/parse_blog.py: a script that runs          *)
(* re.findall(pattern, markup) and prints one line per                    *)
(* captured path.  Strings are sequences of one-character strings; the    *)
(* regular expression is modelled by what the matcher does at each        *)
(* position (literal comparison, greedy class repetition with             *)
(* backtracking, closing literal), and findall by its leftmost,           *)
(* non-overlapping scan.                                                   *)
EXTENDS Integers, Sequences, FiniteSets

VARIABLES markup, matches, stdout, pc, idx

vars == <<markup, matches, stdout, pc, idx>>

(* ---------------------------------------------------------------------- *)
(* Bounds                                                                  *)
(* ---------------------------------------------------------------------- *)

\* longest input, counted in fragments of Frags
MaxFrags == 3

(* ---------------------------------------------------------------------- *)
(* Program constants                                                       *)
(* ---------------------------------------------------------------------- *)

Quote == "\""

\* sample_html, lines 9-12 (the triple-quoted literal starts and ends with a newline)
sample_html == <<
    "\n", "<", "a", " ", "h", "r", "e", "f", "=", "\"", "/", "b",
    "l", "o", "g", "/", "i", "n", "t", "r", "o", "d", "u", "c",
    "i", "n", "g", "-", "c", "o", "w", "o", "r", "k", "\"", ">",
    "I", "n", "t", "r", "o", "d", "u", "c", "i", "n", "g", " ",
    "C", "o", "w", "o", "r", "k", "<", "/", "a", ">", "\n", "<",
    "a", " ", "h", "r", "e", "f", "=", "\"", "/", "b", "l", "o",
    "g", "/", "c", "l", "a", "u", "d", "e", "-", "3", "-", "5",
    "-", "s", "o", "n", "n", "e", "t", "\"", ">", "C", "l", "a",
    "u", "d", "e", " ", "3", ".", "5", " ", "S", "o", "n", "n",
    "e", "t", "<", "/", "a", ">", "\n" >>

\* the literal text href=, then a double quote, that opens the pattern
pattern_open == << "h", "r", "e", "f", "=", "\"" >>

\* the literal  /blog/  that opens the capture group
pattern_group == << "/", "b", "l", "o", "g", "/" >>

\* the introductory line; the four CJK characters are named by code point
IntroLine == << "U+793A", "U+4F8B", "U+89E3", "U+6790", ":" >>

\* the constant part of the f-string of line 19: one space, then the host
UrlPrefix == <<
    " ", "h", "t", "t", "p", "s", ":", "/", "/", "c", "l", "a",
    "u", "d", "e", ".", "c", "o", "m" >>

(* ---------------------------------------------------------------------- *)
(* The regular expression matcher                                          *)
(* ---------------------------------------------------------------------- *)

\* mutant: the matcher folds case (re.IGNORECASE)
Lower(c) ==
    CASE c = "H" -> "h"
      [] c = "R" -> "r"
      [] c = "E" -> "e"
      [] c = "F" -> "f"
      [] c = "B" -> "b"
      [] c = "L" -> "l"
      [] c = "O" -> "o"
      [] c = "G" -> "g"
      [] OTHER -> c

CharEqFold(c, d) == Lower(c) = Lower(d)

\* a literal character of the pattern matches exactly that character
CharEq(c, d) == c = d

\* the literal lit matches s at position p
LitAt(s, p, lit) ==
    /\ p + Len(lit) - 1 <= Len(s)
    /\ \A k \in 1..Len(lit) : CharEq(s[p + k - 1], lit[k])

\* mutant: the class admits every character (a dot instead of the negated class)
InClassAny(c) == TRUE

\* the negated character class: any character but the double quote
InClass(c) == c # Quote

\* greedy repetition: the first position at or after p that the class rejects
RECURSIVE RunEnd(_, _)
RunEnd(s, p) ==
    IF p <= Len(s) /\ InClass(s[p]) THEN RunEnd(s, p + 1) ELSE p

\* after the repetition has consumed up to j (exclusive), the closing quote
\* must match at j; on failure the repetition gives back one character at a
\* time, down to zero repetitions at lo.  0 when every attempt fails.
RECURSIVE CloseAt(_, _, _)
CloseAt(s, lo, j) ==
    IF j <= Len(s) /\ CharEq(s[j], Quote) THEN j
    ELSE IF j = lo THEN 0
    ELSE CloseAt(s, lo, j - 1)

\* mutant: the quantifier is + (at least one character)
RepeatOkPlus(n) == n >= 1

\* the quantifier * accepts any number of repetitions, zero included
RepeatOk(n) == n >= 0

\* mutant: no capture group, findall yields the whole match
MatchAtWhole(s, p) ==
    LET g == p + Len(pattern_open)
        r == g + Len(pattern_group)
    IN  IF LitAt(s, p, pattern_open) /\ LitAt(s, g, pattern_group)
        THEN LET q == CloseAt(s, r, RunEnd(s, r))
             IN  IF q = 0 THEN [ok |-> FALSE, group |-> <<>>, end |-> 0]
                 ELSE [ok |-> TRUE, group |-> SubSeq(s, p, q), end |-> q + 1]
        ELSE [ok |-> FALSE, group |-> <<>>, end |-> 0]

\* one attempt of the pattern at position p: ok, the text of group 1, and
\* the position after the match
MatchAt(s, p) ==
    LET g == p + Len(pattern_open)
        r == g + Len(pattern_group)
    IN  IF LitAt(s, p, pattern_open) /\ LitAt(s, g, pattern_group)
        THEN LET q == CloseAt(s, r, RunEnd(s, r))
             IN  IF q = 0 \/ ~RepeatOk(q - r)
                 THEN [ok |-> FALSE, group |-> <<>>, end |-> 0]
                 ELSE [ok |-> TRUE, group |-> SubSeq(s, g, q - 1), end |-> q + 1]
        ELSE [ok |-> FALSE, group |-> <<>>, end |-> 0]

\* the search of one findall iteration: the leftmost position at or after
\* pos where the pattern matches, 0 when there is none
RECURSIVE Search(_, _)
Search(s, pos) ==
    IF pos > Len(s) THEN 0
    ELSE IF MatchAt(s, pos).ok THEN pos
    ELSE Search(s, pos + 1)

\* the findall loop: search from pos, collect group 1, resume after the match
RECURSIVE FindallFrom(_, _, _)
FindallFrom(s, pos, acc) ==
    LET p == Search(s, pos)
    IN  IF p = 0 THEN acc
        ELSE FindallFrom(s, MatchAt(s, p).end, Append(acc, MatchAt(s, p).group))

RECURSIVE Dedup(_, _)
Dedup(xs, acc) ==
    IF xs = <<>> THEN acc
    ELSE IF \E k \in 1..Len(acc) : acc[k] = Head(xs)
         THEN Dedup(Tail(xs), acc)
         ELSE Dedup(Tail(xs), Append(acc, Head(xs)))

\* mutant: duplicates are dropped (list(dict.fromkeys(...)))
findall_dedup(s) == Dedup(FindallFrom(s, 1, <<>>), <<>>)

\* mutant: the result is reversed
findall_reversed(s) ==
    LET r == FindallFrom(s, 1, <<>>)
    IN  [k \in 1..Len(r) |-> r[Len(r) + 1 - k]]

\* mutant: only the first match is returned (re.search instead of re.findall)
findall_first(s) ==
    LET r == FindallFrom(s, 1, <<>>)
    IN  IF r = <<>> THEN <<>> ELSE <<r[1]>>

\* re.findall(pattern, s)
findall(s) == FindallFrom(s, 1, <<>>)

\* mutant: the leading space of the f-string is missing
UrlLineNoSpace(m) == Tail(UrlPrefix) \o m

\* the f-string of line 19 applied to m
UrlLine(m) == UrlPrefix \o m

(* ---------------------------------------------------------------------- *)
(* Inputs                                                                  *)
(* ---------------------------------------------------------------------- *)

\* pieces of markup from which the inputs are assembled
Frags == <<
    << "h", "r", "e", "f", "=", "\"", "/", "b", "l", "o", "g", "/" >>,
    << "h", "r", "e", "f", "=", "\"", "/", "b", "l", "o", "g", "/", "x", "\"" >>,
    << "\"" >>,
    << "a", "\"", "b", "\"" >>,
    << "H", "R", "E", "F", "=", "\"", "/", "b", "l", "o", "g", "/", "x", "\"" >>,
    << "h", "r", "e", "f", "=", "\"", "/", "B", "l", "o", "g", "/", "x", "\"" >>,
    << "<", "a", " " >>,
    << ">" >> >>

RECURSIVE Flatten(_)
Flatten(fs) == IF fs = <<>> THEN <<>> ELSE Frags[Head(fs)] \o Flatten(Tail(fs))

Inputs ==
    {sample_html} \cup
    {Flatten(fs) : fs \in UNION {[1..n -> 1..Len(Frags)] : n \in 0..MaxFrags}}

(* ---------------------------------------------------------------------- *)
(* The script                                                              *)
(* ---------------------------------------------------------------------- *)

Init ==
    /\ markup \in Inputs
    /\ matches = <<>>
    /\ stdout = <<>>
    /\ pc = "findall"
    /\ idx = 1

\* line 15
Findall ==
    /\ pc = "findall"
    /\ matches' = findall(markup)
    /\ pc' = "print_intro"
    /\ UNCHANGED <<markup, stdout, idx>>

\* line 17
PrintIntro ==
    /\ pc = "print_intro"
    /\ stdout' = Append(stdout, IntroLine)
    /\ idx' = 1
    /\ pc' = "loop"
    /\ UNCHANGED <<markup, matches>>

\* lines 18-19, one iteration
PrintLink ==
    /\ pc = "loop"
    /\ idx <= Len(matches)
    /\ stdout' = Append(stdout, UrlLine(matches[idx]))
    /\ idx' = idx + 1
    /\ UNCHANGED <<markup, matches, pc>>

\* line 18, the iterator is exhausted
LoopExit ==
    /\ pc = "loop"
    /\ idx > Len(matches)
    /\ pc' = "done"
    /\ UNCHANGED <<markup, matches, stdout, idx>>

Next == Findall \/ PrintIntro \/ PrintLink \/ LoopExit

Spec == Init /\ [][Next]_vars

(* ---------------------------------------------------------------------- *)
(* What the markup contains, read off the text alone                       *)
(* ---------------------------------------------------------------------- *)

\* the twelve characters that open an occurrence
HrefBlog == << "h", "r", "e", "f", "=", "\"", "/", "b", "l", "o", "g", "/" >>

BlogRoot == << "/", "b", "l", "o", "g", "/" >>

Host == <<
    "h", "t", "t", "p", "s", ":", "/", "/", "c", "l", "a", "u",
    "d", "e", ".", "c", "o", "m" >>

HasQuoteFrom(s, a) == \E q \in a..Len(s) : s[q] = Quote

\* an occurrence starts at p: the opening text, then some closing quote
IsOcc(s, p) ==
    /\ p + Len(HrefBlog) - 1 <= Len(s)
    /\ SubSeq(s, p, p + Len(HrefBlog) - 1) = HrefBlog
    /\ HasQuoteFrom(s, p + Len(HrefBlog))

\* the same, letter case ignored
IsOccFold(s, p) ==
    /\ p + Len(HrefBlog) - 1 <= Len(s)
    /\ \A k \in 1..Len(HrefBlog) : Lower(s[p + k - 1]) = HrefBlog[k]
    /\ HasQuoteFrom(s, p + Len(HrefBlog))

Occ(s) == {p \in 1..Len(s) : IsOcc(s, p)}

OccFold(s) == {p \in 1..Len(s) : IsOccFold(s, p)}

\* the first quote after the opening text of the occurrence at p
OccClose(s, p) ==
    CHOOSE q \in (p + Len(HrefBlog))..Len(s) :
        /\ s[q] = Quote
        /\ \A r \in (p + Len(HrefBlog))..(q - 1) : s[r] # Quote

OccCapture(s, p) == SubSeq(s, p + 6, OccClose(s, p) - 1)

MinOf(S) == CHOOSE x \in S : \A y \in S : x <= y

\* the occurrences taken left to right, each starting after the previous
\* one has closed
RECURSIVE SelFrom(_, _)
SelFrom(s, from) ==
    LET cand == {p \in Occ(s) : p >= from}
    IN  IF cand = {} THEN <<>>
        ELSE <<MinOf(cand)>> \o SelFrom(s, OccClose(s, MinOf(cand)) + 1)

Sel(s) == SelFrom(s, 1)

NoQuoteIn(m) == \A k \in 1..Len(m) : m[k] # Quote

\* m stands in s right after the opening text href= and a quote, and is
\* followed at once by a quote
StandsQuoted(s, m) ==
    \E a \in 7..(Len(s) + 1) :
        /\ a + Len(m) <= Len(s)
        /\ SubSeq(s, a, a + Len(m) - 1) = m
        /\ SubSeq(s, a - 6, a - 1) = SubSeq(HrefBlog, 1, 6)
        /\ s[a + Len(m)] = Quote

Extracted == pc # "findall"

(* named inputs *)
BlogX == BlogRoot \o <<"x">>
BlogA == BlogRoot \o <<"a">>
AnchorX == HrefBlog \o <<"x", Quote>>
DupInput == AnchorX \o AnchorX
BareInput == HrefBlog \o <<Quote>>
MalformedInput == HrefBlog \o <<"a", Quote, "b", Quote, ">">>
MalformedThenAnchor == HrefBlog \o <<"a", Quote, "b", Quote>> \o AnchorX
UpperAttrInput == << "H", "R", "E", "F", "=", "\"", "/", "b", "l", "o", "g", "/", "x", "\"" >>
UpperPathInput == << "h", "r", "e", "f", "=", "\"", "/", "B", "l", "o", "g", "/", "x", "\"" >>
IntroducingCowork == BlogRoot \o <<
    "i", "n", "t", "r", "o", "d", "u", "c", "i", "n", "g", "-",
    "c", "o", "w", "o", "r", "k" >>
Claude35Sonnet == BlogRoot \o <<
    "c", "l", "a", "u", "d", "e", "-", "3", "-", "5", "-", "s",
    "o", "n", "n", "e", "t" >>

(* ---------------------------------------------------------------------- *)
(* Claims                                                                  *)
(* ---------------------------------------------------------------------- *)

\* C1: on sample_html the extraction returns exactly the two paths
\* /blog/introducing-cowork and /blog/claude-3-5-sonnet, in that order.
C1_SampleResult ==
    (Extracted /\ markup = sample_html)
        => matches = <<IntroducingCowork, Claude35Sonnet>>

C1_Witness ==
    /\ pc = "done"
    /\ markup = sample_html
    /\ Len(matches) = 2

C3_Order ==
    Extracted =>
        matches = [i \in 1..Len(Sel(markup)) |->
                       OccCapture(markup, Sel(markup)[i])]

C3_Witness ==
    /\ pc = "done"
    /\ Len(matches) >= 2
    /\ matches[1] # matches[2]
    /\ Cardinality(Occ(markup)) > Len(matches)

\* C4: an input with no occurrence of href= quote /blog/ followed by
\* non-quote characters and a closing quote yields the empty sequence, and
\* the run ends normally; the empty string is such an input.
C4_NoMatchEmpty ==
    (Extracted /\ Occ(markup) = {}) => matches = <<>>

C4_Witness ==
    /\ pc = "done"
    /\ Occ(markup) = {}
    /\ \E p \in 1..(Len(markup) - Len(HrefBlog) + 1) :
          SubSeq(markup, p, p + Len(HrefBlog) - 1) = HrefBlog
    /\ matches = <<>>
    /\ stdout = <<IntroLine>>

\* C5: no deduplication: the input with href= /blog/x twice yields two
\* entries both equal to /blog/x, and the number of entries is the number
\* of matched occurrences, not the number of distinct captures.
C5_NoDedup ==
    Extracted =>
        /\ Len(matches) = Len(Sel(markup))
        /\ markup = DupInput => matches = <<BlogX, BlogX>>

C5_Witness ==
    /\ pc = "done"
    /\ markup = DupInput
    /\ Len(matches) = 2
    /\ Cardinality({matches[k] : k \in 1..Len(matches)}) = 1

\* C6: every printed URL is the host prefix followed by a path that stands
\* in the markup as a contiguous substring, right after href= and a quote
\* and right before a quote.
C6_UrlFromInput ==
    \A k \in 2..Len(stdout) :
        LET url == Tail(stdout[k])
            path == SubSeq(url, Len(Host) + 1, Len(url))
        IN  /\ Len(url) >= Len(Host) + Len(BlogRoot)
            /\ SubSeq(url, 1, Len(Host)) = Host
            /\ SubSeq(path, 1, Len(BlogRoot)) = BlogRoot
            /\ StandsQuoted(markup, path)

C6_Witness ==
    /\ pc = "done"
    /\ Len(stdout) >= 3
    /\ stdout[2] # stdout[3]

\* C7 as stated: every extracted path is /blog/ followed by one or more
\* non-quote characters, so the bare /blog/ is never extracted.
C7_TokenNonEmpty ==
    \A k \in 1..Len(matches) :
        /\ Len(matches[k]) > Len(BlogRoot)
        /\ SubSeq(matches[k], 1, Len(BlogRoot)) = BlogRoot
        /\ NoQuoteIn(matches[k])

\* C7 amended: every extracted path is /blog/ followed by zero or more
\* non-quote characters; the input href= quote /blog/ quote yields the bare
\* path /blog/.
C7_TokenMayBeEmpty ==
    /\ \A k \in 1..Len(matches) :
          /\ Len(matches[k]) >= Len(BlogRoot)
          /\ SubSeq(matches[k], 1, Len(BlogRoot)) = BlogRoot
          /\ NoQuoteIn(matches[k])
    /\ (Extracted /\ markup = BareInput) => matches = <<BlogRoot>>

C7_Witness ==
    /\ pc = "done"
    /\ markup = BareInput
    /\ matches = <<BlogRoot>>

\* C9: each capture starts at /blog/ right after href= and a quote and ends
\* right before the first quote that follows, so no capture holds a quote;
\* a quote inside the href value cuts the capture there, and the scan goes
\* on after that quote.
C9_Boundaries ==
    /\ \A k \in 1..Len(matches) :
          /\ NoQuoteIn(matches[k])
          /\ StandsQuoted(markup, matches[k])
    /\ (Extracted /\ markup = MalformedInput) => matches = <<BlogA>>
    /\ (Extracted /\ markup = MalformedThenAnchor) => matches = <<BlogA, BlogX>>

C9_Witness ==
    /\ pc = "done"
    /\ markup = MalformedThenAnchor
    /\ matches = <<BlogA, BlogX>>

\* C10: matching is case-sensitive and textual: an occurrence that differs
\* from href= quote /blog/ in letter case adds no entry, and an occurrence
\* in the exact case is matched whether or not an anchor tag surrounds it.
C10_CaseSensitive ==
    Extracted =>
        /\ markup = UpperAttrInput => matches = <<>>
        /\ markup = UpperPathInput => matches = <<>>
        /\ Len(matches) <= Cardinality(Occ(markup))
        /\ Occ(markup) = {} => matches = <<>>
        /\ Occ(markup) # {} =>
              /\ matches # <<>>
              /\ matches[1] = OccCapture(markup, MinOf(Occ(markup)))

C10_Witness ==
    /\ pc = "done"
    /\ OccFold(markup) \ Occ(markup) # {}
    /\ Occ(markup) # {}
    /\ markup[1] # "<"
    /\ Len(matches) = 1

====
